---- MODULE Spec2Model ----
(***************************************************************************)
(* Model of the ptvn-data-validator correction core:                       *)
(*   - the spec-string codec        (app/utils/spec_parser.py)             *)
(*   - the per-row stage pipeline   (app/services/fixer_service.py)        *)
(*   - the two batch schedulers     (app/pipeline/pipeline.py and          *)
(*                                   app/fastapi/api/routers/pipeline.py)  *)
(*                                                                         *)
(* A Python str is a sequence of one-character strings, so that strip,     *)
(* split, lower and replace are computed character by character.  None and *)
(* float NaN are one-element sequences holding a word, which no str is.    *)
(***************************************************************************)
EXTENDS Integers, Sequences, FiniteSets, TLC

----------------------------------------------------------------------------
(* Python values that are not str *)

None == <<"None">>
NaN == <<"NaN">>
KeyMissing == <<"KeyError">>

IsStr(v) == v \notin {None, NaN, KeyMissing}

\* pd.isna(v) for the scalars a row can hold
isna(v) == v \in {None, NaN}

----------------------------------------------------------------------------
(* str primitives *)

Whitespace == {" ", "\t"}

lower_char(c) ==
    CASE c = "A" -> "a"
      [] c = "B" -> "b"
      [] c = "N" -> "n"
      [] c = "X" -> "x"
      [] OTHER -> c

lower(s) == [k \in 1..Len(s) |-> lower_char(s[k])]

RECURSIVE lstrip(_)
lstrip(s) ==
    IF s # <<>> /\ Head(s) \in Whitespace THEN lstrip(Tail(s)) ELSE s

RECURSIVE rstrip(_)
rstrip(s) ==
    IF s # <<>> /\ s[Len(s)] \in Whitespace
    THEN rstrip(SubSeq(s, 1, Len(s) - 1))
    ELSE s

strip(s) == rstrip(lstrip(s))

\* s.replace(" ", "")
remove_spaces(s) == SelectSeq(s, LAMBDA c : c # " ")

\* index of the first occurrence of character c in s at or after k, 0 if none
RECURSIVE find(_, _, _)
find(s, c, k) ==
    IF k > Len(s) THEN 0
    ELSE IF s[k] = c THEN k
    ELSE find(s, c, k + 1)

\* s.split(sep) for a one-character separator
RECURSIVE split(_, _)
split(s, sep) ==
    LET k == find(s, sep, 1) IN
    IF k = 0 THEN <<s>>
    ELSE <<SubSeq(s, 1, k - 1)>> \o split(SubSeq(s, k + 1, Len(s)), sep)

\* s.split(sep, 1)
split_once(s, sep) ==
    LET k == find(s, sep, 1) IN
    IF k = 0 THEN <<s>>
    ELSE <<SubSeq(s, 1, k - 1), SubSeq(s, k + 1, Len(s))>>

\* sep.join(parts)
RECURSIVE join(_, _)
join(sep, parts) ==
    IF parts = <<>> THEN <<>>
    ELSE IF Len(parts) = 1 THEN parts[1]
    ELSE parts[1] \o <<sep>> \o join(sep, Tail(parts))

\* Python truthiness of a str-or-None value: "not v"
Falsy(v) == v = None \/ v = <<>>

\* "not s or not s.strip()" for a str
IsBlank(s) == s = <<>> \/ strip(s) = <<>>

----------------------------------------------------------------------------
(* dict: insertion-ordered sequence of <<key, value>> with unique keys *)

HasKey(d, k) == \E j \in 1..Len(d) : d[j][1] = k

\* (variant: a list of pairs, a repeated key is added again)
DictSet_appends(d, k, v) == Append(d, <<k, v>>)

DictSet(d, k, v) ==
    IF HasKey(d, k)
    THEN [j \in 1..Len(d) |-> IF d[j][1] = k THEN <<k, v>> ELSE d[j]]
    ELSE Append(d, <<k, v>>)

DictGet(d, k, default) ==
    IF HasKey(d, k)
    THEN d[CHOOSE j \in 1..Len(d) : d[j][1] = k][2]
    ELSE default

Keys(d) == [j \in 1..Len(d) |-> d[j][1]]

----------------------------------------------------------------------------
(* spec_parser.py *)

ItemKey == <<"i", "t", "e", "m">>
Placeholder == <<"-">>

clean_spec_pred(spec_pred) ==
    IF spec_pred = None THEN None
    ELSE IF spec_pred = NaN THEN None
    ELSE LET s == strip(spec_pred) IN
         IF s = <<>> \/ lower(s) = <<"n", "a", "n">> THEN None ELSE s

RECURSIVE parse_pairs(_, _)
parse_pairs(pairs, spec_dict) ==
    IF pairs = <<>> THEN spec_dict
    ELSE LET p == strip(Head(pairs))
             parts == split_once(p, " ")
         IN IF p = <<>> \/ Len(parts) # 2
            THEN parse_pairs(Tail(pairs), spec_dict)
            ELSE parse_pairs(Tail(pairs), DictSet(spec_dict, parts[1], parts[2]))

parse_spec(spec_pred) ==
    LET spec_str == clean_spec_pred(spec_pred) IN
    IF spec_str = None THEN <<>>
    ELSE parse_pairs(split(spec_str, "|"), <<>>)

\* (variant: the placeholder is returned like any other value)
extract_item_keeps_placeholder(spec_pred) ==
    LET item == DictGet(parse_spec(spec_pred), ItemKey, None) IN
    IF Falsy(item) THEN NaN ELSE item

\* np.nan is returned for "no item"
extract_item(spec_pred) ==
    LET item == DictGet(parse_spec(spec_pred), ItemKey, None) IN
    IF Falsy(item) \/ strip(item) = Placeholder \/ strip(item) = <<>>
    THEN NaN
    ELSE item

RECURSIVE format_pairs(_)
format_pairs(pairs) ==
    IF pairs = <<>> THEN <<>>
    ELSE LET parts == split_once(strip(Head(pairs)), " ") IN
         IF Len(parts) = 2
         THEN <<lower(remove_spaces(parts[1])) \o <<" ">>
                  \o lower(remove_spaces(parts[2]))>>
              \o format_pairs(Tail(pairs))
         ELSE format_pairs(Tail(pairs))

\* (variant: the pairs are joined with a space)
fix_spec_format_joined_by_space(spec_string) ==
    IF Falsy(spec_string) THEN spec_string
    ELSE join(" ", format_pairs(split(spec_string, "|")))

fix_spec_format(spec_string) ==
    IF Falsy(spec_string) THEN spec_string
    ELSE join("|", format_pairs(split(spec_string, "|")))

\* (variant: a key the fixed spec lacks is left out)
align_spec_keys_drops_missing(original_spec, fixed_spec) ==
    LET original_dict == parse_spec(original_spec)
        fixed_dict == parse_spec(fixed_spec)
        kept == SelectSeq(original_dict, LAMBDA kv : HasKey(fixed_dict, kv[1]))
    IN join("|", [j \in 1..Len(kept) |->
                   kept[j][1] \o <<" ">> \o DictGet(fixed_dict, kept[j][1], Placeholder)])

\* (variant: a key the fixed spec lacks keeps its original value)
align_spec_keys_keeps_original(original_spec, fixed_spec) ==
    LET original_dict == parse_spec(original_spec)
        fixed_dict == parse_spec(fixed_spec)
    IN IF original_dict = <<>> THEN <<>>
       ELSE join("|", [j \in 1..Len(original_dict) |->
                         original_dict[j][1] \o <<" ">>
                           \o DictGet(fixed_dict, original_dict[j][1],
                                      original_dict[j][2])])

\* (variant: without an original schema the fixed spec is returned)
align_spec_keys_returns_fixed(original_spec, fixed_spec) ==
    LET original_dict == parse_spec(original_spec)
        fixed_dict == parse_spec(fixed_spec)
    IN IF original_dict = <<>> THEN fixed_spec
       ELSE join("|", [j \in 1..Len(original_dict) |->
                         original_dict[j][1] \o <<" ">>
                           \o DictGet(fixed_dict, original_dict[j][1], Placeholder)])

\* (variant: the values are written trimmed)
align_spec_keys_trims_values(original_spec, fixed_spec) ==
    LET original_dict == parse_spec(original_spec)
        fixed_dict == parse_spec(fixed_spec)
    IN IF original_dict = <<>> THEN <<>>
       ELSE join("|", [j \in 1..Len(original_dict) |->
                         original_dict[j][1] \o <<" ">>
                           \o strip(DictGet(fixed_dict, original_dict[j][1],
                                            Placeholder))])

align_spec_keys(original_spec, fixed_spec) ==
    LET original_dict == parse_spec(original_spec)
        fixed_dict == parse_spec(fixed_spec)
    IN IF original_dict = <<>> THEN <<>>
       ELSE join("|", [j \in 1..Len(original_dict) |->
                         original_dict[j][1] \o <<" ">>
                           \o DictGet(fixed_dict, original_dict[j][1], Placeholder)])

----------------------------------------------------------------------------
(* fixer_service.py: FixerService.fix_row, one suspension point per gateway call *)

\* what one gateway call can do: answer, exceed its wait_for deadline, raise
Outcomes == {"ok", "timeout", "error"}

\* line 104
original_spec_pred(row) ==
    IF isna(row.spec_pred) THEN <<>> ELSE row.spec_pred

normalize_for_compare(val) ==
    IF val = None THEN <<>>
    ELSE IF val = NaN THEN <<>>
    ELSE strip(val)

\* the except clauses around each stage's wait_for
predict_item_caught == {"timeout"}
\* (variant: fix_spec guarded like predict_item, by except TimeoutError alone)
fix_spec_caught_timeout_only == {"timeout"}
fix_spec_caught == {"timeout", "error"}
remove_multi_items_caught == {"timeout", "error"}
validate_spec_caught == {"timeout", "error"}

\* str(category_fixed), str(item_pred), str(description)
str(v) == IF v = NaN THEN <<"n", "a", "n">> ELSE v

\* lines 158-170: the retrieval query
spec_query(row, item_pred) ==
    LET cat == IF Falsy(row.category) THEN <<>> ELSE <<str(row.category)>>
        itm == IF Falsy(item_pred) THEN <<>> ELSE <<str(item_pred)>>
        q == strip(join(" ", cat \o itm))
    IN IF q # <<>> THEN q ELSE str(row.description)

\* (variant: the item is taken from the spec text the row came with)
fix_row_return_extracts_original(row, item_pred, final_spec) ==
    LET norm_original_spec == normalize_for_compare(original_spec_pred(row))
        norm_fixed_spec == normalize_for_compare(final_spec)
    IN [item_pred |-> item_pred,
        item_extracted |-> IF final_spec # <<>>
                           THEN extract_item(original_spec_pred(row))
                           ELSE None,
        spec_pred_fixed |-> final_spec,
        category_fixed |-> row.category,
        spec_changed |-> norm_fixed_spec # <<>>
                           /\ norm_fixed_spec # norm_original_spec,
        category_changed |-> FALSE]

\* (variant: the final spec is compared as it is, without the strip)
fix_row_return_compares_raw(row, item_pred, final_spec) ==
    LET norm_original_spec == normalize_for_compare(original_spec_pred(row))
    IN [item_pred |-> item_pred,
        item_extracted |-> IF final_spec # <<>> THEN extract_item(final_spec)
                           ELSE None,
        spec_pred_fixed |-> final_spec,
        category_fixed |-> row.category,
        spec_changed |-> final_spec # <<>> /\ final_spec # norm_original_spec,
        category_changed |-> FALSE]

\* lines 265-287
fix_row_return(row, item_pred, final_spec) ==
    LET norm_original_spec == normalize_for_compare(original_spec_pred(row))
        norm_fixed_spec == normalize_for_compare(final_spec)
    IN [item_pred |-> item_pred,
        item_extracted |-> IF final_spec # <<>> THEN extract_item(final_spec)
                           ELSE None,
        spec_pred_fixed |-> final_spec,
        category_fixed |-> row.category,
        spec_changed |-> norm_fixed_spec # <<>>
                           /\ norm_fixed_spec # norm_original_spec,
        category_changed |-> FALSE]

\* The three ways a step of fix_row ends: suspended in a gateway call,
\* returned its dict, or raised out of fix_row.
Await(stage, input, ip, saf, sari) ==
    [kind |-> "await", stage |-> stage, input |-> input,
     item_pred |-> ip, spec_after_fix |-> saf, spec_after_remove_items |-> sari]
Return(res) == [kind |-> "return", res |-> res]
Raise(exc) == [kind |-> "raise", exc |-> exc]

\* the handler's print(... description[:80]) slices the description
timeout_print_raises(row) == ~IsStr(row.description)

\* (variant: the validated text is used as the language model wrote it)
after_validate_spec_unformatted(row, ip, sari, out, t) ==
    IF out = "ok"
    THEN Return(fix_row_return(row, ip,
                  align_spec_keys(original_spec_pred(row), t)))
    ELSE IF out \notin validate_spec_caught THEN Raise("GatewayError")
    ELSE IF out = "timeout" /\ timeout_print_raises(row) THEN Raise("TypeError")
    ELSE Return(fix_row_return(row, ip, sari))

\* (variant: the text kept after a failed validation is formatted and
\* aligned like an answer)
after_validate_spec_formats_fallback(row, ip, sari, out, t) ==
    IF out = "ok"
    THEN Return(fix_row_return(row, ip,
                  align_spec_keys(original_spec_pred(row), fix_spec_format(t))))
    ELSE IF out \notin validate_spec_caught THEN Raise("GatewayError")
    ELSE IF out = "timeout" /\ timeout_print_raises(row) THEN Raise("TypeError")
    ELSE Return(fix_row_return(row, ip,
                  align_spec_keys(original_spec_pred(row),
                                  fix_spec_format(sari))))

\* lines 243-287: stage 7 has ended with `out` (text t when it answered)
after_validate_spec(row, ip, sari, out, t) ==
    IF out = "ok"
    THEN Return(fix_row_return(row, ip,
                  align_spec_keys(original_spec_pred(row), fix_spec_format(t))))
    ELSE IF out \notin validate_spec_caught THEN Raise("GatewayError")
    ELSE IF out = "timeout" /\ timeout_print_raises(row) THEN Raise("TypeError")
    ELSE Return(fix_row_return(row, ip, sari))

\* (variant: avalidate_spec without its empty-input return)
call_validate_spec_unguarded(row, ip, saf, sari) ==
    Await("validate_spec", sari, ip, saf, sari)

\* (variant: for an empty input fix_row ends with the empty text, which is
\* not aligned with the original)
call_validate_spec_skips_alignment(row, ip, saf, sari) ==
    IF IsBlank(sari)
    THEN Return(fix_row_return(row, ip, <<>>))
    ELSE Await("validate_spec", sari, ip, saf, sari)

\* llm_service.py avalidate_spec: the empty input is answered without a request
call_validate_spec(row, ip, saf, sari) ==
    IF IsBlank(sari)
    THEN after_validate_spec(row, ip, sari, "ok", <<>>)
    ELSE Await("validate_spec", sari, ip, saf, sari)

\* lines 221-239: stage 6 has ended with `out`
after_remove_multi_items(row, ip, saf, out, t) ==
    IF out = "ok" THEN call_validate_spec(row, ip, saf, t)
    ELSE IF out \notin remove_multi_items_caught THEN Raise("GatewayError")
    ELSE IF out = "timeout" /\ timeout_print_raises(row) THEN Raise("TypeError")
    ELSE call_validate_spec(row, ip, saf, saf)

\* (variant: aremove_multi_items without its empty-input return)
call_remove_multi_items_unguarded(row, ip, saf) ==
    Await("remove_multi_items", saf, ip, saf, None)

\* llm_service.py aremove_multi_items
call_remove_multi_items(row, ip, saf) ==
    IF IsBlank(saf)
    THEN after_remove_multi_items(row, ip, saf, "ok", <<>>)
    ELSE Await("remove_multi_items", saf, ip, saf, None)

\* (variant: fix_spec is asked again after a timeout)
after_fix_spec_retries(row, ip, out, t) ==
    IF out = "ok" THEN call_remove_multi_items(row, ip, t)
    ELSE IF out = "timeout"
    THEN Await("fix_spec", original_spec_pred(row), ip, None, None)
    ELSE call_remove_multi_items(row, ip, original_spec_pred(row))

\* (variant: the except clauses of fix_spec fall back to the empty text)
after_fix_spec_falls_back_empty(row, ip, out, t) ==
    IF out = "ok" THEN call_remove_multi_items(row, ip, t)
    ELSE call_remove_multi_items(row, ip, <<>>)

\* lines 198-217: stage 5 has ended with `out`
after_fix_spec(row, ip, out, t) ==
    IF out = "ok" THEN call_remove_multi_items(row, ip, t)
    ELSE IF out \notin fix_spec_caught THEN Raise("GatewayError")
    ELSE IF out = "timeout" /\ timeout_print_raises(row) THEN Raise("TypeError")
    ELSE call_remove_multi_items(row, ip, original_spec_pred(row))

\* (variant: afix_spec without its empty-input return)
call_fix_spec_unguarded(row, ip) ==
    Await("fix_spec", original_spec_pred(row), ip, None, None)

\* llm_service.py afix_spec
call_fix_spec(row, ip) ==
    IF IsBlank(original_spec_pred(row))
    THEN after_fix_spec(row, ip, "ok", <<>>)
    ELSE Await("fix_spec", original_spec_pred(row), ip, None, None)

\* ragflow_service.py _retrieve: a timeout or an error is an empty list
retrieve(out, hits) == IF out = "ok" THEN hits ELSE <<>>

\* line 173: list.sort calls the key on every element, and the elements
\* get_spec_patterns_by_query returns are str, which has no .get
sort_raises(spec_patterns_data) == spec_patterns_data # <<>>

\* lines 165-217: the retrieval has ended
after_retrieve(row, ip, out, hits) ==
    IF sort_raises(retrieve(out, hits)) THEN Raise("AttributeError")
    ELSE call_fix_spec(row, ip)

\* lines 106-170: stage 1 has ended with `out`
after_predict_item(row, out, t) ==
    IF out = "ok" THEN Await("retrieve", spec_query(row, t), t, None, None)
    ELSE IF out \notin predict_item_caught THEN Raise("GatewayError")
    ELSE Await("retrieve", spec_query(row, None), None, None, None)

\* lines 99-114: fix_row up to its first suspension
start_fix_row(row) ==
    IF row.description = KeyMissing THEN Raise("KeyError")
    ELSE Await("predict_item", row.description, None, None, None)

----------------------------------------------------------------------------
(* The batch: pipeline.py process_dataframe and routers/pipeline.py fix_batch *)

VARIABLES
    sched,        \* "process_dataframe" or "fix_batch"
    records,      \* the rows of the batch, in submission order
    concurrency,  \* the cap the semaphore is built with
    gateway,      \* the gateway stubs: what they may answer (items, specs,
                  \* hits) and how each stage's call may end (outcomes)
    semaphore,    \* asyncio.Semaphore value: free admission slots
    task,         \* per worker: where it is suspended and fix_row's locals
    gwlog,        \* per worker: the gateway calls fix_row made, in order
    completed,    \* process_dataframe: finished tasks as_completed has not yielded yet
    overtaken,    \* history: some row finished before an earlier row did
    results,      \* the pre-sized result slots
    batch,        \* "running", "returned", "aborted" (a task's exception
                  \* reached the caller) or "rejected" (the output could not
                  \* be built from the results); "idle": no batch
    response,     \* what the batch call returned, NoResponse before
    codec,        \* a call of a spec_parser function on its own: the
                  \* function, its arguments and what it returned
    earlier       \* the finished run of the other scheduler on the same
                  \* rows, when the rows are given to both; NoRun otherwise

vars == <<sched, records, concurrency, gateway, semaphore, task, gwlog,
          completed, overtaken, results, batch, response, codec, earlier>>

Scheds == {"process_dataframe", "fix_batch"}

MaxRecords == 3
MaxConcurrency == 2

N == Len(records)
Workers == 1..N

\* results = [None] * total
NoneSlot == [slot |-> "None"]

\* the batch call has returned nothing (it is running, or it raised)
NoResponse == [response |-> "None"]

\* the rows have not been given to the other scheduler before
NoRun == [run |-> "None"]

\* the suspension points of a worker
Stages == {"predict_item", "retrieve", "fix_spec", "remove_multi_items",
           "validate_spec"}

Waiting(i) == task[i].pc = "waiting"
Running(i) == task[i].pc \in Stages
Done(i) == task[i].pc = "done"

NewTask ==
    [pc |-> "waiting", item_pred |-> None, spec_after_fix |-> None,
     spec_after_remove_items |-> None, result |-> NoneSlot]

\* (variant: a fallback without the item_extracted key)
fallback_result_five_fields(row) ==
    [item_pred |-> None,
     spec_pred_fixed |-> row.spec_pred,
     category_fixed |-> row.category,
     spec_changed |-> FALSE,
     category_changed |-> FALSE]

\* (variant: a fallback that leaves the category out)
fallback_result_drops_category(row) ==
    [item_pred |-> None,
     item_extracted |-> None,
     spec_pred_fixed |-> row.spec_pred,
     category_fixed |-> None,
     spec_changed |-> FALSE,
     category_changed |-> FALSE]

\* pipeline.py lines 15-23, routers/pipeline.py lines 13-21
fallback_result(row) ==
    [item_pred |-> None,
     item_extracted |-> None,
     spec_pred_fixed |-> row.spec_pred,
     category_fixed |-> row.category,
     spec_changed |-> FALSE,
     category_changed |-> FALSE]

\* (variant: a worker with the except asyncio.TimeoutError clause alone)
worker_catches_timeout_only(exc) == exc = "TimeoutError"

\* "except Exception" (and "except asyncio.TimeoutError") of both workers
worker_catches(exc) ==
    exc \in {"KeyError", "TypeError", "AttributeError", "GatewayError",
             "TimeoutError"}

\* (variant: an admission test that is off by one)
can_acquire_at_zero(value) == value >= 0

\* asyncio.Semaphore.acquire does not wait while the value is positive
can_acquire(value) == value > 0

\* (variant: leaving the "async with" block gives no slot back)
release_keeps_slot(value) == value

\* asyncio.Semaphore.release, run when the "async with" block is left
release(value) == value + 1

\* (variant: results appended in completion order)
slot_of_completion(idx, rank) == rank

\* the slot a finished row's result is written to: results[idx] = res
\* (rank: how many rows have finished, this one included)
slot_of(idx, rank) == idx

\* (variant: fix_row keeps its intermediate values on the FixerService
\* object the rows share; a row reads what the latest-submitted running row
\* has there)
locals_on_fixer(tasks, i) ==
    tasks[CHOOSE j \in DOMAIN tasks :
            /\ tasks[j].pc \in Stages
            /\ \A k \in DOMAIN tasks : tasks[k].pc \in Stages => k <= j]

\* item_pred, spec_after_fix and spec_after_remove_items are local variables
\* of the fix_row call of row i
locals(tasks, i) == tasks[i]

\* the log entry of the call in flight gets its outcome
CloseCall(log, out, reply) ==
    IF log = <<>> THEN log
    ELSE [log EXCEPT ![Len(log)] = [@ EXCEPT !.out = out, !.reply = reply]]

OpenCall(log, stage, input) ==
    Append(log, [stage |-> stage, input |-> input, out |-> "pending",
                 reply |-> None])

\* how many rows have finished, the one finishing now included
Rank(tasks) == Cardinality({j \in DOMAIN tasks : tasks[j].pc = "done"}) + 1

\* The worker of row i leaves fix_row with res while holding a slot:
\* the slot is released and the result handed over.
Finish(i, res, held, log) ==
    /\ semaphore' = release(held)
    /\ gwlog' = [gwlog EXCEPT ![i] = log]
    /\ batch' = batch
    /\ overtaken' = (overtaken \/ \E j \in Workers : j < i /\ ~Done(j))
    /\ IF sched = "fix_batch"
       THEN /\ results' = [results EXCEPT ![slot_of(i, Rank(task))] = res]
            /\ task' = [task EXCEPT ![i] = [NewTask EXCEPT !.pc = "done"]]
            /\ completed' = completed
       ELSE /\ task' = [task EXCEPT ![i] =
                          [NewTask EXCEPT !.pc = "done", !.result = <<i, res>>]]
            /\ completed' = Append(completed, i)
            /\ results' = results

\* One step of worker i: fix_row ran from its last suspension point to r.
Step(i, r, held, out, reply) ==
    LET log == CloseCall(gwlog[i], out, reply) IN
    /\ UNCHANGED <<sched, records, concurrency, gateway, response, codec,
                   earlier>>
    /\ CASE r.kind = "await" ->
              /\ task' = [task EXCEPT ![i] =
                            [pc |-> r.stage, item_pred |-> r.item_pred,
                             spec_after_fix |-> r.spec_after_fix,
                             spec_after_remove_items |-> r.spec_after_remove_items,
                             result |-> NoneSlot]]
              /\ gwlog' = [gwlog EXCEPT ![i] = OpenCall(log, r.stage, r.input)]
              /\ semaphore' = held
              /\ UNCHANGED <<completed, overtaken, results, batch>>
         [] r.kind = "return" -> Finish(i, r.res, held, log)
         [] r.kind = "raise" /\ worker_catches(r.exc) ->
              Finish(i, fallback_result(records[i]), held, log)
         [] OTHER ->
              \* the task fails, and with it the await of the collector or gather
              /\ batch' = "aborted"
              /\ semaphore' = release(held)
              /\ gwlog' = [gwlog EXCEPT ![i] = log]
              /\ task' = [task EXCEPT ![i] = [NewTask EXCEPT !.pc = "done"]]
              /\ UNCHANGED <<completed, overtaken, results>>

\* async with semaphore: waiters are admitted in task creation order
Admit(i) ==
    /\ batch = "running"
    /\ Waiting(i)
    /\ \A j \in Workers : j < i => ~Waiting(j)
    /\ can_acquire(semaphore)
    /\ Step(i, start_fix_row(records[i]), semaphore - 1, "ok", None)

PredictItemReturn(i) ==
    /\ batch = "running"
    /\ task[i].pc = "predict_item"
    /\ \E out \in gateway.outcomes.predict_item : \E t \in gateway.items :
         Step(i, after_predict_item(records[i], out, t), semaphore, out,
              IF out = "ok" THEN t ELSE None)

RetrieveReturn(i) ==
    /\ batch = "running"
    /\ task[i].pc = "retrieve"
    /\ \E out \in gateway.outcomes.retrieve : \E hits \in gateway.hits :
         Step(i, after_retrieve(records[i], locals(task, i).item_pred, out,
                                hits),
              semaphore, out, IF out = "ok" THEN hits ELSE None)

FixSpecReturn(i) ==
    /\ batch = "running"
    /\ task[i].pc = "fix_spec"
    /\ \E out \in gateway.outcomes.fix_spec : \E t \in gateway.specs :
         Step(i, after_fix_spec(records[i], locals(task, i).item_pred, out, t),
              semaphore, out, IF out = "ok" THEN t ELSE None)

RemoveMultiItemsReturn(i) ==
    /\ batch = "running"
    /\ task[i].pc = "remove_multi_items"
    /\ \E out \in gateway.outcomes.remove_multi_items : \E t \in gateway.specs :
         Step(i, after_remove_multi_items(records[i],
                                          locals(task, i).item_pred,
                                          locals(task, i).spec_after_fix,
                                          out, t),
              semaphore, out, IF out = "ok" THEN t ELSE None)

ValidateSpecReturn(i) ==
    /\ batch = "running"
    /\ task[i].pc = "validate_spec"
    /\ \E out \in gateway.outcomes.validate_spec : \E t \in gateway.specs :
         Step(i, after_validate_spec(records[i], locals(task, i).item_pred,
                                     locals(task, i).spec_after_remove_items,
                                     out, t),
              semaphore, out, IF out = "ok" THEN t ELSE None)

\* process_dataframe lines 58-60: idx, res = await fut; results[idx] = res
Collect ==
    /\ batch = "running"
    /\ sched = "process_dataframe"
    /\ completed # <<>>
    /\ LET pair == task[Head(completed)].result
           rank == Cardinality({j \in Workers : results[j] # NoneSlot}) + 1
       IN results' = [results EXCEPT ![slot_of(pair[1], rank)] = pair[2]]
    /\ completed' = Tail(completed)
    /\ UNCHANGED <<sched, records, concurrency, gateway, semaphore, task,
                   gwlog, overtaken, batch, response, codec, earlier>>

\* the keys of the dict fix_row and fallback_result return
FixResultFields ==
    {"item_pred", "item_extracted", "spec_pred_fixed", "category_fixed",
     "spec_changed", "category_changed"}

\* models.py FixRowOut: four Optional[str] fields and two bool fields, all
\* of them required
FixRowOut_valid(r) ==
    /\ DOMAIN r = FixResultFields
    /\ \A f \in {"item_pred", "item_extracted", "spec_pred_fixed",
                  "category_fixed"} : r[f] = None \/ IsStr(r[f])
    /\ r.spec_changed \in BOOLEAN
    /\ r.category_changed \in BOOLEAN

\* (variant: the projection copies the spec text the row came with)
post_process_row_keeps_original(row, res) ==
    [description |-> row.description,
     category |-> res.category_fixed,
     spec_pred |-> row.spec_pred]

\* routers/pipeline.py lines 61-69 and pipeline.py lines 101-104: the
\* projection of one result
post_process_row(row, res) ==
    [description |-> row.description,
     category |-> res.category_fixed,
     spec_pred |-> res.spec_pred_fixed]

\* models.py PostProcessRowOut
PostProcessRowOut_valid(r) ==
    /\ IsStr(r.description)
    /\ r.category = None \/ IsStr(r.category)
    /\ r.spec_pred = None \/ IsStr(r.spec_pred)

\* The as_completed loop is exhausted, or gather has every task's result.
\* The code after it reads every slot: process_dataframe copies the six
\* fields into the frame and main, when asked to post_process, selects the
\* description column and the two copied columns; fix_batch builds its
\* response models (projected first when the payload asks for post_process).
BatchReturn ==
    /\ batch = "running"
    /\ \A i \in Workers : Done(i)
    /\ completed = <<>>
    /\ \E post_process \in BOOLEAN :
         IF \/ \E i \in Workers : results[i] = NoneSlot
            \/ /\ sched = "process_dataframe"
               /\ \E i \in Workers : ~(FixResultFields \subseteq DOMAIN results[i])
         THEN batch' = "aborted" /\ response' = NoResponse
         ELSE LET rows == IF post_process
                          THEN [i \in Workers |->
                                  post_process_row(records[i], results[i])]
                          ELSE results
                  valid == \/ /\ sched = "process_dataframe"
                              /\ post_process =>
                                   \A i \in Workers :
                                      records[i].description # KeyMissing
                           \/ /\ sched = "fix_batch"
                              /\ post_process
                              /\ \A i \in Workers : PostProcessRowOut_valid(rows[i])
                           \/ /\ sched = "fix_batch"
                              /\ ~post_process
                              /\ \A i \in Workers : FixRowOut_valid(rows[i])
              IN IF valid
                 THEN /\ batch' = "returned"
                      /\ response' = [post_process |-> post_process,
                                      rows |-> rows]
                 ELSE batch' = "rejected" /\ response' = NoResponse
    /\ UNCHANGED <<sched, records, concurrency, gateway, semaphore, task,
                   gwlog, completed, overtaken, results, codec, earlier>>

Next ==
    \/ \E i \in Workers : Admit(i)
    \/ \E i \in Workers : PredictItemReturn(i)
    \/ \E i \in Workers : RetrieveReturn(i)
    \/ \E i \in Workers : FixSpecReturn(i)
    \/ \E i \in Workers : RemoveMultiItemsReturn(i)
    \/ \E i \in Workers : ValidateSpecReturn(i)
    \/ Collect
    \/ BatchReturn

----------------------------------------------------------------------------
(* Inputs *)

Desc == <<"d">>
Cat == <<"c">>
SpecA1 == <<"a", " ", "1">>
SpecA2 == <<"a", " ", "2">>

\* rows of a batch: RowIn objects for fix_batch, CSV rows for process_dataframe
BatchRows(s) ==
    IF s = "fix_batch"
    THEN {[description |-> Desc, spec_pred |-> SpecA1, category |-> Cat],
          [description |-> Desc, spec_pred |-> None, category |-> None]}
    ELSE {[description |-> Desc, spec_pred |-> SpecA1, category |-> Cat],
          [description |-> Desc, spec_pred |-> NaN, category |-> NaN],
          [description |-> KeyMissing, spec_pred |-> SpecA1, category |-> Cat]}

\* The stubs of a batch run: the language model may fail in fix_spec, the
\* retrieval may return a hit.
BatchGateway ==
    [items |-> {<<"x">>}, specs |-> {SpecA2}, hits |-> {<<>>, <<SpecA1>>},
     outcomes |-> [predict_item |-> {"ok"},
                   retrieve |-> {"ok"},
                   fix_spec |-> {"ok", "error"},
                   remove_multi_items |-> {"ok"},
                   validate_spec |-> {"ok"}]]

\* no spec_parser function is called on its own during a batch
NoCall ==
    [op |-> "none", original |-> None, fixed |-> None, out |-> None,
     again |-> None]

InitWith(s, rows, cap, gw) ==
    /\ sched = s
    /\ records = rows
    /\ concurrency = cap
    /\ gateway = gw
    /\ semaphore = cap
    /\ task = [i \in 1..Len(rows) |-> NewTask]
    /\ gwlog = [i \in 1..Len(rows) |-> <<>>]
    /\ completed = <<>>
    /\ overtaken = FALSE
    /\ results = [i \in 1..Len(rows) |-> NoneSlot]
    /\ batch = "running"
    /\ response = NoResponse
    /\ codec = NoCall
    /\ earlier = NoRun

InitBatch ==
    \E s \in Scheds : \E n \in 1..MaxRecords : \E cap \in 1..MaxConcurrency :
      \E rows \in [1..n -> BatchRows(s)] :
        InitWith(s, rows, cap, BatchGateway)

\* A batch of one row, with every outcome at every stage and answers that
\* are empty, unformatted, carry other keys than the row's spec, or carry a
\* key twice.
SpecBlank == <<" ">>
SpecLead == <<" ", "a", " ", "1">>
SpecItem == <<"i", "t", "e", "m", " ", "x", "|", "a", " ", "1">>
ReplyRaw == <<"A", " ", " ", "2">>
ReplyKeys == <<"i", "t", "e", "m", " ", "-", "|", "b", " ", "3">>
ReplyTwice == <<"a", " ", "1", "|", "a", " ", "2">>

RowRows(s) ==
    IF s = "fix_batch"
    THEN [description : {Desc},
          spec_pred : {None, <<>>, SpecBlank, SpecA1, SpecLead, SpecItem},
          category : {None, Cat}]
    ELSE [description : {Desc, NaN, KeyMissing},
          spec_pred : {NaN, <<>>, SpecBlank, SpecA1, SpecLead, SpecItem},
          category : {NaN, Cat}]

RowGateway ==
    [items |-> {<<>>, <<"x">>},
     specs |-> {<<>>, SpecBlank, SpecA2, ReplyRaw, ReplyKeys, ReplyTwice},
     hits |-> {<<>>, <<SpecA1>>},
     outcomes |-> [predict_item |-> Outcomes,
                   retrieve |-> Outcomes,
                   fix_spec |-> Outcomes,
                   remove_multi_items |-> Outcomes,
                   validate_spec |-> Outcomes]]

InitRow ==
    \E s \in Scheds : \E row \in RowRows(s) :
        InitWith(s, <<row>>, 1, RowGateway)

Init == InitBatch \/ InitRow

Spec == Init /\ [][Next]_vars

\* Every gateway call ends: it answers, raises, or asyncio.wait_for cuts it
\* off at its deadline.  No row of a running batch stays in the call of one
\* stage for ever (weak fairness of the stage's return for the row, its
\* enabling condition written out).
GatewayCallsEnd ==
    \A i \in 1..MaxRecords : \A stage \in Stages :
        []<>~(/\ i \in Workers
              /\ batch = "running"
              /\ task[i].pc = stage)

\* The event loop runs a task that can run: a waiter is admitted when a slot
\* is free, the collector takes a finished worker, the caller is resumed when
\* all workers are done; and every gateway call ends.
FairSpec ==
    /\ Spec
    /\ WF_vars(\E i \in Workers : Admit(i))
    /\ WF_vars(Collect)
    /\ WF_vars(BatchReturn)
    /\ GatewayCallsEnd

----------------------------------------------------------------------------
(* The same rows given to both schedulers, one after the other, the gateways
   ending every call of the second run as they ended it in the first *)

OtherSched(s) ==
    IF s = "fix_batch" THEN "process_dataframe" ELSE "fix_batch"

\* rows both schedulers take: RowIn fields, which a DataFrame can hold too
SharedRows == BatchRows("fix_batch")

InitBoth ==
    \E s \in Scheds : \E n \in 1..MaxRecords : \E cap \in 1..MaxConcurrency :
      \E rows \in [1..n -> SharedRows] :
        InitWith(s, rows, cap, BatchGateway)

\* the first run is over: the other scheduler is called with the same rows
\* and the same cap
RunOther ==
    /\ batch \in {"returned", "rejected"}
    /\ earlier = NoRun
    /\ earlier' = [sched |-> sched, gwlog |-> gwlog, results |-> results,
                   batch |-> batch, response |-> response]
    /\ sched' = OtherSched(sched)
    /\ semaphore' = concurrency
    /\ task' = [i \in Workers |-> NewTask]
    /\ gwlog' = [i \in Workers |-> <<>>]
    /\ completed' = <<>>
    /\ overtaken' = FALSE
    /\ results' = [i \in Workers |-> NoneSlot]
    /\ batch' = "running"
    /\ response' = NoResponse
    /\ UNCHANGED <<records, concurrency, gateway, codec>>

\* the k-th gateway call of a row ends in the second run as the k-th call of
\* that row ended in the first
SameOutcomes ==
    earlier # NoRun =>
        \A i \in Workers : \A k \in 1..Len(gwlog[i]) :
            (gwlog[i][k].out # "pending" /\ k <= Len(earlier.gwlog[i])) =>
                /\ gwlog[i][k].out = earlier.gwlog[i][k].out
                /\ gwlog[i][k].reply = earlier.gwlog[i][k].reply

NextBoth ==
    \/ \E i \in Workers : Admit(i)
    \/ \E i \in Workers : PredictItemReturn(i) /\ SameOutcomes'
    \/ \E i \in Workers : RetrieveReturn(i) /\ SameOutcomes'
    \/ \E i \in Workers : FixSpecReturn(i) /\ SameOutcomes'
    \/ \E i \in Workers : RemoveMultiItemsReturn(i) /\ SameOutcomes'
    \/ \E i \in Workers : ValidateSpecReturn(i) /\ SameOutcomes'
    \/ Collect
    \/ BatchReturn
    \/ RunOther

SpecBoth == InitBoth /\ [][NextBoth]_vars

----------------------------------------------------------------------------
(* The spec_parser functions called on their own, on texts built from a few
   segments joined with "|" *)

MaxSegments == 2

SegPadded == <<" ", "A", " ", " ", "2", " ">>
SegNan == <<"n", "a", "n">>
SegItemX == <<"i", "t", "e", "m", " ", "x">>
SegItemNone == <<"i", "t", "e", "m", " ", "-">>
SegTab == <<"b", " ", "\t", " ", "3">>

\* an empty segment, a pair, a padded pair in upper case with two spaces, a
\* segment without a space (alone it is the literal "nan"), an item, an item
\* placeholder, a pair whose value holds a tab
Segments == {<<>>, SpecA1, SegPadded, SegNan, SegItemX, SegItemNone, SegTab}

Texts ==
    {join("|", q) : q \in UNION {[1..k -> Segments] : k \in 1..MaxSegments}}

InitCodec ==
    /\ sched = "fix_batch"
    /\ records = <<>>
    /\ concurrency = 1
    /\ gateway = BatchGateway
    /\ semaphore = 1
    /\ task = <<>>
    /\ gwlog = <<>>
    /\ completed = <<>>
    /\ overtaken = FALSE
    /\ results = <<>>
    /\ batch = "idle"
    /\ response = NoResponse
    /\ earlier = NoRun
    /\ \E o \in Texts \cup {None, NaN} : \E f \in Texts :
         codec = [op |-> "input", original |-> o, fixed |-> f, out |-> None,
                  again |-> None]

AlignSpecKeys ==
    /\ codec.op = "input"
    /\ codec' = [codec EXCEPT !.op = "align_spec_keys",
                              !.out = align_spec_keys(codec.original, codec.fixed)]
    /\ UNCHANGED <<sched, records, concurrency, gateway, semaphore, task,
                   gwlog, completed, overtaken, results, batch, response,
                   earlier>>

FixSpecFormat ==
    /\ codec.op = "input"
    /\ codec' = [codec EXCEPT !.op = "fix_spec_format",
                              !.out = fix_spec_format(codec.fixed)]
    /\ UNCHANGED <<sched, records, concurrency, gateway, semaphore, task,
                   gwlog, completed, overtaken, results, batch, response,
                   earlier>>

\* the original aligned with what the first alignment returned
AlignSpecKeysAgain ==
    /\ codec.op = "align_spec_keys"
    /\ codec' = [codec EXCEPT !.op = "align_spec_keys_again",
                              !.again = align_spec_keys(codec.original, codec.out)]
    /\ UNCHANGED <<sched, records, concurrency, gateway, semaphore, task,
                   gwlog, completed, overtaken, results, batch, response,
                   earlier>>

\* the original aligned with itself
AlignSpecKeysSelf ==
    /\ codec.op = "input"
    /\ codec' = [codec EXCEPT !.op = "align_spec_keys_self",
                              !.out = align_spec_keys(codec.original,
                                                      codec.original)]
    /\ UNCHANGED <<sched, records, concurrency, gateway, semaphore, task,
                   gwlog, completed, overtaken, results, batch, response,
                   earlier>>

\* the function applied to its own output
FixSpecFormatAgain ==
    /\ codec.op = "fix_spec_format"
    /\ codec' = [codec EXCEPT !.op = "fix_spec_format_again",
                              !.again = fix_spec_format(codec.out)]
    /\ UNCHANGED <<sched, records, concurrency, gateway, semaphore, task,
                   gwlog, completed, overtaken, results, batch, response,
                   earlier>>

ParseSpec ==
    /\ codec.op = "input"
    /\ codec' = [codec EXCEPT !.op = "parse_spec",
                              !.out = parse_spec(codec.original)]
    /\ UNCHANGED <<sched, records, concurrency, gateway, semaphore, task,
                   gwlog, completed, overtaken, results, batch, response,
                   earlier>>

ExtractItem ==
    /\ codec.op = "input"
    /\ codec' = [codec EXCEPT !.op = "extract_item",
                              !.out = extract_item(codec.fixed)]
    /\ UNCHANGED <<sched, records, concurrency, gateway, semaphore, task,
                   gwlog, completed, overtaken, results, batch, response,
                   earlier>>

NextCodec ==
    \/ ParseSpec
    \/ AlignSpecKeys
    \/ AlignSpecKeysAgain
    \/ AlignSpecKeysSelf
    \/ FixSpecFormat
    \/ FixSpecFormatAgain
    \/ ExtractItem

SpecCodec == InitCodec /\ [][NextCodec]_vars

----------------------------------------------------------------------------
(* What one row's fix_row and worker produce from the row's own gateway calls *)

after_stage(row, r, out, reply) ==
    CASE r.stage = "predict_item" -> after_predict_item(row, out, reply)
      [] r.stage = "retrieve" -> after_retrieve(row, r.item_pred, out, reply)
      [] r.stage = "fix_spec" -> after_fix_spec(row, r.item_pred, out, reply)
      [] r.stage = "remove_multi_items" ->
           after_remove_multi_items(row, r.item_pred, r.spec_after_fix, out, reply)
      [] r.stage = "validate_spec" ->
           after_validate_spec(row, r.item_pred, r.spec_after_remove_items,
                               out, reply)

\* fix_row run alone against the answers recorded in log, from entry k on
RECURSIVE replay(_, _, _, _)
replay(row, r, log, k) ==
    IF r.kind # "await" \/ k > Len(log) \/ log[k].out = "pending" THEN r
    ELSE replay(row, after_stage(row, r, log[k].out, log[k].reply), log, k + 1)

fix_row(row, log) == replay(row, start_fix_row(row), log, 1)

Returned(i) == Done(i) /\ fix_row(records[i], gwlog[i]).kind = "return"
Raised(i) == Done(i) /\ fix_row(records[i], gwlog[i]).kind = "raise"

\* the worker's res for row i
produced(i) ==
    LET r == fix_row(records[i], gwlog[i]) IN
    IF r.kind = "return" THEN r.res ELSE fallback_result(records[i])

WellFormed(row) == IsStr(row.description)

\* the log entries of worker i for a stage (a stage is called at most once)
Calls(i, stage) == {k \in 1..Len(gwlog[i]) : gwlog[i][k].stage = stage}
Called(i, stage) == Calls(i, stage) # {}
CallOf(i, stage) == gwlog[i][CHOOSE k \in Calls(i, stage) : TRUE]
Failed(i, stage) ==
    Called(i, stage) /\ CallOf(i, stage).out \in {"timeout", "error"}

RunningRows == {i \in Workers : Running(i)}

----------------------------------------------------------------------------
(* Claims *)

\* C1: when the batch returns, results[i] is the result produced for
\* records[i], for every i, whatever the cap and the order of completion.
C1_ResultsInSubmissionOrder ==
    batch = "returned" =>
        \A i \in Workers : results[i] = produced(i)

\* a returned batch with more rows than slots in which some row finished
\* before an earlier-submitted row, and no two rows got the same result
C1_Witness ==
    /\ batch = "returned"
    /\ concurrency < N
    /\ overtaken
    /\ \A i, j \in Workers : i # j => results[i] # results[j]

\* C2: at most `concurrency` rows are inside fix_row at any time, and a
\* waiting row is admitted only while fewer than `concurrency` are running.
C2_AtMostCapRunning ==
    /\ [](Cardinality(RunningRows) <= concurrency)
    /\ [][\A i \in Workers :
            (Waiting(i) /\ ~Waiting(i)')
              => Cardinality(RunningRows) < concurrency]_vars

\* the cap is reached while a row is still waiting
C2_Witness ==
    /\ Cardinality(RunningRows) = concurrency
    /\ \E i \in Workers : Waiting(i)

\* C3: a row whose fix_row raised gets the fallback result built from its
\* own spec_pred and category; the batch is never aborted and returns a
\* result for every row.
C3_RaiseBecomesFallback ==
    /\ batch # "aborted"
    /\ batch = "returned" =>
         \A i \in Workers :
            /\ results[i] # NoneSlot
            /\ Raised(i) =>
                 results[i] = [item_pred |-> None,
                               item_extracted |-> None,
                               spec_pred_fixed |-> records[i].spec_pred,
                               category_fixed |-> records[i].category,
                               spec_changed |-> FALSE,
                               category_changed |-> FALSE]

\* a returned batch where the row lacking its description raised and a
\* sibling went through the whole pipeline
C3_Witness ==
    /\ batch = "returned"
    /\ \E i, j \in Workers :
         /\ records[i].description = KeyMissing
         /\ Raised(i)
         /\ Returned(j)
         /\ Called(j, "validate_spec")

\* C4: a well-formed row whose fix_spec call timed out or raised goes on with
\* its original spec text (stage fallback, not the batch fallback); every
\* sibling whose own calls all succeeded gets the result of its own answers.
CleanRun(j) ==
    /\ \A k \in 1..Len(gwlog[j]) : gwlog[j][k].out = "ok"
    /\ Called(j, "retrieve") /\ CallOf(j, "retrieve").reply = <<>>

NonDegraded(j) ==
    fix_row_return(records[j], CallOf(j, "predict_item").reply,
        align_spec_keys(original_spec_pred(records[j]),
            IF Called(j, "validate_spec")
            THEN fix_spec_format(CallOf(j, "validate_spec").reply)
            ELSE <<>>))

C4_StageFailureIsolated ==
    /\ batch # "aborted"
    /\ batch = "returned" =>
         \A i \in Workers :
            (Failed(i, "fix_spec") /\ WellFormed(records[i])) =>
                /\ Called(i, "remove_multi_items")
                /\ CallOf(i, "remove_multi_items").input
                     = original_spec_pred(records[i])
                /\ results[i].item_pred = CallOf(i, "predict_item").reply
                /\ \A j \in Workers \ {i} :
                     CleanRun(j) => results[j] = NonDegraded(j)

\* exactly one row's fix_spec call failed, next to a sibling whose calls
\* all succeeded, with room for both to be in flight together
C4_Witness ==
    /\ batch = "returned"
    /\ concurrency >= 2
    /\ \E i \in Workers :
         /\ Failed(i, "fix_spec")
         /\ \A j \in Workers \ {i} : ~Failed(j, "fix_spec")
         /\ \E j \in Workers \ {i} :
              CleanRun(j) /\ Called(j, "fix_spec")
                /\ results[j].spec_changed

\* C5: for every well-formed row and every combination of stage outcomes,
\* the final spec_pred_fixed is align_spec_keys(original spec, stage-6 output).
Stage6Output(i) ==
    IF ~Called(i, "validate_spec") THEN <<>>
    ELSE IF CallOf(i, "validate_spec").out = "ok"
    THEN fix_spec_format(CallOf(i, "validate_spec").reply)
    ELSE CallOf(i, "validate_spec").input

C5_FinalSpecIsAligned ==
    batch = "returned" =>
        \A i \in Workers :
            (WellFormed(records[i]) /\ Returned(i)) =>
                results[i].spec_pred_fixed
                  = align_spec_keys(original_spec_pred(records[i]),
                                    Stage6Output(i))

\* C6: for a well-formed row, no gateway timeout or error at any stage makes
\* fix_row raise.
C6_GatewayFailureNeverRaises ==
    \A i \in Workers :
        (/\ WellFormed(records[i])
         /\ gwlog[i] # <<>>
         /\ gwlog[i][Len(gwlog[i])].out \in {"timeout", "error"})
          => ~Raised(i)

\* C7: when the predict_item call times out or raises, item_pred is absent
\* and the row goes on to the retrieval with the query built without it.
C7_PredictItemFailureContinues ==
    \A i \in Workers :
        Failed(i, "predict_item") =>
            /\ Called(i, "retrieve")
            /\ CallOf(i, "retrieve").input = spec_query(records[i], None)
            /\ Running(i) => task[i].item_pred = None

\* C8: a row whose spec_pred is None, NaN, empty or whitespace never issues a
\* fix_spec, remove_multi_items or validate_spec request, and the result
\* fix_row returns for it has spec_pred_fixed = "" and spec_changed = false.
BlankSpec(row) == isna(row.spec_pred) \/ strip(row.spec_pred) = <<>>

C8_BlankSpecSkipsStages ==
    \A i \in Workers :
        BlankSpec(records[i]) =>
            /\ ~Called(i, "fix_spec")
            /\ ~Called(i, "remove_multi_items")
            /\ ~Called(i, "validate_spec")
            /\ (batch = "returned" /\ Returned(i)) =>
                 /\ results[i].spec_pred_fixed = <<>>
                 /\ results[i].spec_changed = FALSE

\* a whitespace-only spec_pred went through fix_row to a returned batch
C8_Witness ==
    /\ batch = "returned"
    /\ \E i \in Workers :
         /\ records[i].spec_pred = SpecBlank
         /\ Returned(i)
         /\ Called(i, "retrieve")

\* C9: what fix_spec hands to remove_multi_items is the gateway's
\* spec_pred_fixed when the call answered and the original spec text when it
\* timed out or raised.
C9_FixSpecFallback ==
    \A i \in Workers : \A k \in Calls(i, "fix_spec") :
        LET call == gwlog[i][k]
            handed == IF call.out = "ok" THEN call.reply
                      ELSE original_spec_pred(records[i])
        IN (call.out # "pending" /\ WellFormed(records[i])) =>
             IF IsBlank(handed)
             THEN Len(gwlog[i]) = k
             ELSE /\ Len(gwlog[i]) > k
                  /\ gwlog[i][k + 1].stage = "remove_multi_items"
                  /\ gwlog[i][k + 1].input = handed

\* fix_spec timed out and remove_multi_items was called with the original
C9_Witness ==
    \E i \in Workers :
        /\ Called(i, "fix_spec")
        /\ CallOf(i, "fix_spec").out = "timeout"
        /\ Called(i, "remove_multi_items")
        /\ CallOf(i, "remove_multi_items").input = records[i].spec_pred

\* C10: when fix_spec's output is blank, remove_multi_items issues no request
\* and its output is empty (no later request either, and the final spec is
\* the alignment of the empty text); when its call times out or raises, its
\* output, handed to validate_spec, is fix_spec's output unchanged.
C10_RemoveMultiItemsFallback ==
    \A i \in Workers :
        /\ (/\ Called(i, "fix_spec")
            /\ CallOf(i, "fix_spec").out = "ok"
            /\ IsBlank(CallOf(i, "fix_spec").reply)) =>
               /\ ~Called(i, "remove_multi_items")
               /\ ~Called(i, "validate_spec")
               /\ batch = "returned" =>
                    results[i].spec_pred_fixed
                      = align_spec_keys(original_spec_pred(records[i]), <<>>)
        /\ (Failed(i, "remove_multi_items") /\ WellFormed(records[i])) =>
               /\ Called(i, "validate_spec")
               /\ CallOf(i, "validate_spec").input
                    = CallOf(i, "remove_multi_items").input

\* a whitespace-only fix_spec answer ended the row without a further request
\* and the original key came back with the placeholder
C10_Witness ==
    /\ batch = "returned"
    /\ \E i \in Workers :
         /\ Called(i, "fix_spec")
         /\ CallOf(i, "fix_spec").reply = SpecBlank
         /\ ~Called(i, "remove_multi_items")
         /\ results[i].spec_pred_fixed = <<"a", " ", "-">>

\* C11: validate_spec issues no request when the output of remove_multi_items
\* is blank, and its output is then empty; when its call times out or raises,
\* the final spec is the output of remove_multi_items unchanged; when it
\* answers, the answer goes through fix_spec_format before it is used.
Stage5Output(i) ==
    IF ~Called(i, "remove_multi_items") THEN <<>>
    ELSE IF CallOf(i, "remove_multi_items").out = "ok"
    THEN CallOf(i, "remove_multi_items").reply
    ELSE CallOf(i, "remove_multi_items").input

C11_ValidateSpecFallback ==
    batch = "returned" =>
        \A i \in Workers :
            (WellFormed(records[i]) /\ Returned(i)) =>
                LET final == results[i].spec_pred_fixed
                    orig == IF isna(records[i].spec_pred) THEN <<>>
                            ELSE records[i].spec_pred
                IN IF strip(Stage5Output(i)) = <<>>
                   THEN /\ ~Called(i, "validate_spec")
                        /\ final = align_spec_keys(orig, <<>>)
                   ELSE /\ Called(i, "validate_spec")
                        /\ CallOf(i, "validate_spec").input = Stage5Output(i)
                        /\ IF CallOf(i, "validate_spec").out = "ok"
                           THEN final = align_spec_keys(orig,
                                  fix_spec_format(CallOf(i, "validate_spec").reply))
                           ELSE final = Stage5Output(i)

\* an unformatted answer of validate_spec reached the result formatted
C11_Witness ==
    /\ batch = "returned"
    /\ \E i \in Workers :
         /\ Called(i, "validate_spec")
         /\ CallOf(i, "validate_spec").out = "ok"
         /\ CallOf(i, "validate_spec").reply = ReplyRaw
         /\ results[i].spec_pred_fixed = SpecA2

\* C12: for every original O that parses to a non-empty map and every
\* candidate C, the keys of parse_spec(align_spec_keys(O, C)) are the keys of
\* parse_spec(O): as many, the same, in the same order.
C12_AlignKeepsKeys ==
    (codec.op = "align_spec_keys" /\ parse_spec(codec.original) # <<>>) =>
        Keys(parse_spec(codec.out)) = Keys(parse_spec(codec.original))

\* an original of two keys aligned with a candidate that lacks one of them
\* and brings a key of its own
C12_Witness ==
    /\ codec.op = "align_spec_keys"
    /\ Len(parse_spec(codec.original)) = 2
    /\ \E j \in 1..2 :
         ~HasKey(parse_spec(codec.fixed), parse_spec(codec.original)[j][1])
    /\ \E j \in 1..Len(parse_spec(codec.fixed)) :
         ~HasKey(parse_spec(codec.original), parse_spec(codec.fixed)[j][1])
    /\ Len(parse_spec(codec.out)) = 2

\* C13: in align_spec_keys(O, C) each key of parse_spec(O) carries the value
\* parse_spec(C) has for it, or "-" when parse_spec(C) lacks the key; a key
\* that only C has does not appear.
C13_AlignValues ==
    codec.op = "align_spec_keys" =>
        LET o == parse_spec(codec.original)
            c == parse_spec(codec.fixed)
            a == parse_spec(codec.out)
        IN /\ \A j \in 1..Len(o) :
                /\ HasKey(a, o[j][1])
                /\ DictGet(a, o[j][1], None)
                     = IF HasKey(c, o[j][1]) THEN DictGet(c, o[j][1], None)
                       ELSE <<"-">>
           /\ \A j \in 1..Len(a) : HasKey(o, a[j][1])

\* one key took the candidate's value, another the placeholder, and a key of
\* the candidate was dropped
C13_Witness ==
    /\ codec.op = "align_spec_keys"
    /\ codec.original = SpecA1 \o <<"|">> \o SegItemX
    /\ codec.fixed = SegPadded \o <<"|">> \o SegItemNone
    /\ codec.out = <<"a", " ", "-", "|", "i", "t", "e", "m", " ", "-">>

\* C14: align_spec_keys(O, C) is "" for every C when parse_spec(O) is empty:
\* O is None or NaN, blank, the literal "nan", or made of segments without a
\* space.
EmptyOriginal(o) ==
    \/ isna(o)
    \/ strip(o) = <<>>
    \/ lower(strip(o)) = <<"n", "a", "n">>
    \/ \A j \in 1..Len(split(o, "|")) : find(strip(split(o, "|")[j]), " ", 1) = 0

C14_AlignOfEmptyOriginal ==
    (/\ codec.op = "align_spec_keys"
     /\ (EmptyOriginal(codec.original) \/ parse_spec(codec.original) = <<>>)) =>
        codec.out = <<>>

\* an original of two segments without a space, next to a candidate of two keys
C14_Witness ==
    /\ codec.op = "align_spec_keys"
    /\ codec.original = SegNan \o <<"|">> \o SegNan
    /\ Len(parse_spec(codec.fixed)) = 2
    /\ codec.out = <<>>

\* C15: fix_spec_format is idempotent:
\* fix_spec_format(fix_spec_format(s)) = fix_spec_format(s).
C15_FormatIdempotent ==
    codec.op = "fix_spec_format_again" => codec.again = codec.out

\* a text with upper case, a doubled space and a tab was changed by the
\* first pass and not by the second
C15_Witness ==
    /\ codec.op = "fix_spec_format_again"
    /\ codec.fixed = SegPadded \o <<"|">> \o SegTab
    /\ codec.out = <<"a", " ", "2", "|", "b", " ", "\t", "3">>
    /\ codec.again = codec.out

\* C16: extract_item returns the value parse_spec holds under "item", and
\* no item (NaN) when the key is missing or its value, trimmed, is empty
\* or "-".
C16_ExtractItem ==
    codec.op = "extract_item" =>
        LET d == parse_spec(codec.fixed)
            present == \E j \in 1..Len(d) :
                          /\ d[j][1] = <<"i", "t", "e", "m">>
                          /\ strip(d[j][2]) \notin {<<>>, <<"-">>}
        IN IF present
           THEN \E j \in 1..Len(d) :
                   d[j][1] = <<"i", "t", "e", "m">> /\ codec.out = d[j][2]
           ELSE codec.out = NaN

\* "item -" next to another pair gave no item
C16_Witness ==
    /\ codec.op = "extract_item"
    /\ codec.fixed = SegItemNone \o <<"|">> \o SpecA1
    /\ codec.out = NaN

\* C17: in every result fix_row returns, spec_changed is true exactly when
\* the final spec, trimmed, is not empty and differs from the original spec,
\* trimmed (None and NaN count as empty).
C17_SpecChangedIffDiffers ==
    \A i \in Workers :
        (Returned(i) /\ results[i] # NoneSlot) =>
            LET final == strip(results[i].spec_pred_fixed)
                orig == IF records[i].spec_pred \in {None, NaN} THEN <<>>
                        ELSE strip(records[i].spec_pred)
            IN results[i].spec_changed = (final # <<>> /\ final # orig)

\* every stage call failed, so the final spec is the original with its
\* leading space: equal once trimmed, and reported unchanged
C17_Witness ==
    \E i \in Workers :
        /\ Returned(i)
        /\ results[i] # NoneSlot
        /\ records[i].spec_pred = SpecLead
        /\ results[i].spec_pred_fixed = SpecLead
        /\ results[i].spec_changed = FALSE

C19_ResultSetComplete ==
    batch = "returned" =>
        /\ Len(results) = Len(records)
        /\ Len(response.rows) = Len(records)
        /\ \A i \in 1..Len(records) :
             /\ results[i] # [slot |-> "None"]
             /\ DOMAIN results[i]
                  = {"item_pred", "item_extracted", "spec_pred_fixed",
                     "category_fixed", "spec_changed", "category_changed"}

\* a returned batch of several rows in which one row raised and another
\* lost its fix_spec call
C19_Witness ==
    /\ batch = "returned"
    /\ N >= 2
    /\ \E i, j \in Workers :
         /\ Raised(i)
         /\ Failed(j, "fix_spec")
         /\ Returned(j)

\* C20: a row's result depends on the row's own fields and on the answers to
\* its own gateway calls only: two rows of a batch with the same fields and
\* the same answers get the same result whatever their siblings are and do,
\* and a step taken for one row leaves the locals, the call log and the
\* result of every other row as they were.
C20_RowsAreIsolated ==
    /\ [](\A i, j \in Workers :
            (/\ records[i] = records[j]
             /\ gwlog[i] = gwlog[j]
             /\ results[i] # NoneSlot
             /\ results[j] # NoneSlot) => results[i] = results[j])
    /\ [][\A i, j \in Workers :
            (i # j /\ (task[i]' # task[i] \/ gwlog[i]' # gwlog[i]
                         \/ results[i]' # results[i]))
              => /\ task[j]' = task[j]
                 /\ gwlog[j]' = gwlog[j]
                 /\ results[j]' = results[j]]_vars

\* two rows with the same fields and answers finished with the same result
\* next to a third, different row that raised, with room for two rows to be
\* in flight together and a finishing order other than the submission order
C20_Witness ==
    /\ batch = "returned"
    /\ concurrency >= 2
    /\ overtaken
    /\ \E i, j, k \in Workers :
         /\ i # j
         /\ records[i] = records[j]
         /\ gwlog[i] = gwlog[j]
         /\ Returned(i)
         /\ results[i] = results[j]
         /\ records[k] # records[i]
         /\ Raised(k)

\* C21: with post_process set, the output entry at position i is
\* {description of row i, category: category_fixed of result i, spec_pred:
\* spec_pred_fixed of result i}; there is no output before the batch
\* returns, every row has finished by then, and building the output changes
\* no result.
C21_PostProcessProjection ==
    /\ [](batch = "returned" =>
            /\ \A i \in Workers : task[i].pc = "done"
            /\ response.post_process =>
                 /\ Len(response.rows) = Len(records)
                 /\ \A i \in 1..Len(records) :
                      response.rows[i]
                        = [description |-> records[i].description,
                           category |-> results[i].category_fixed,
                           spec_pred |-> results[i].spec_pred_fixed])
    /\ [][(batch = "running" /\ batch' = "returned")
            => (results' = results /\ response = NoResponse)]_vars

\* a post-processed output of a batch in which a spec was changed
C21_Witness ==
    /\ batch = "returned"
    /\ response.post_process
    /\ \E i \in Workers :
         /\ results[i].spec_changed
         /\ response.rows[i].spec_pred = results[i].spec_pred_fixed
         /\ response.rows[i].spec_pred # records[i].spec_pred

\* C22: whatever the retrieval answers, an empty list or candidates, the
\* spec-pattern stage sorts and renders them and is never a failure of the
\* row's pipeline: fix_row does not raise there, and a row with a non-blank
\* spec goes on to fix_spec.
C22_RetrievalNeverFails ==
    \A i \in Workers : \A k \in Calls(i, "retrieve") :
        (gwlog[i][k].out # "pending" /\ WellFormed(records[i])) =>
            /\ (Len(gwlog[i]) = k) => ~Raised(i)
            /\ (Len(gwlog[i]) = k /\ Done(i)) => BlankSpec(records[i])
            /\ (Len(gwlog[i]) > k) => gwlog[i][k + 1].stage = "fix_spec"

\* C23: within one row the gateway calls are made in stage order, a call is
\* issued only when every earlier call of the row has ended, and no stage
\* calls twice: a call that timed out or raised is not repeated.
StageNo(stage) ==
    CASE stage = "predict_item" -> 1
      [] stage = "retrieve" -> 3
      [] stage = "fix_spec" -> 4
      [] stage = "remove_multi_items" -> 5
      [] stage = "validate_spec" -> 6

C23_StagesInOrderOnce ==
    \A i \in Workers :
        /\ \A k, l \in 1..Len(gwlog[i]) :
             k < l => /\ StageNo(gwlog[i][k].stage) < StageNo(gwlog[i][l].stage)
                      /\ gwlog[i][k].out # "pending"
        /\ Running(i) =>
             /\ gwlog[i] # <<>>
             /\ gwlog[i][Len(gwlog[i])].out = "pending"
             /\ gwlog[i][Len(gwlog[i])].stage = task[i].pc

\* a row made all five calls, two of which failed, and finished
C23_Witness ==
    \E i \in Workers :
        /\ Done(i)
        /\ Len(gwlog[i]) = 5
        /\ Failed(i, "fix_spec")
        /\ Failed(i, "validate_spec")

\* C24 as stated: every finished row has called the retrieval 0 to 1 times
\* and the language model 3 to 4 times, and remove_multi_items and
\* validate_spec were called with the output of the stage before.
LanguageModelStages ==
    {"predict_item", "fix_spec", "remove_multi_items", "validate_spec"}

LanguageModelCalls(i) ==
    Cardinality({k \in 1..Len(gwlog[i]) :
                   gwlog[i][k].stage \in LanguageModelStages})

RetrievalCalls(i) ==
    Cardinality({k \in 1..Len(gwlog[i]) : gwlog[i][k].stage = "retrieve"})

Stage4Output(i) ==
    IF ~Called(i, "fix_spec") THEN <<>>
    ELSE IF CallOf(i, "fix_spec").out = "ok" THEN CallOf(i, "fix_spec").reply
    ELSE IF isna(records[i].spec_pred) THEN <<>>
    ELSE records[i].spec_pred

InputsChained(i) ==
    /\ Called(i, "remove_multi_items") =>
         CallOf(i, "remove_multi_items").input = Stage4Output(i)
    /\ Called(i, "validate_spec") =>
         CallOf(i, "validate_spec").input = Stage5Output(i)

ExpectedQuery(i) ==
    LET cat == records[i].category
        item == IF CallOf(i, "predict_item").out = "ok"
                THEN CallOf(i, "predict_item").reply ELSE <<>>
        parts == (IF cat \in {None, NaN} \/ cat = <<>> THEN <<>> ELSE <<cat>>)
                   \o (IF item = <<>> THEN <<>> ELSE <<item>>)
    IN IF parts = <<>> THEN records[i].description
       ELSE IF Len(parts) = 1 THEN parts[1]
       ELSE parts[1] \o <<" ">> \o parts[2]

C25_QueryFromCategoryAndItem ==
    \A i \in Workers :
        (Called(i, "retrieve") /\ WellFormed(records[i])) =>
            CallOf(i, "retrieve").input = ExpectedQuery(i)

\* C26: in every result fix_row returns, item_extracted is absent (None or
\* NaN) when spec_pred_fixed is empty, and is extract_item(spec_pred_fixed)
\* otherwise: never "-", and when present it is the value the final spec
\* has under the key "item".
C26_ItemExtractedFromFinalSpec ==
    \A i \in Workers :
        (Returned(i) /\ results[i] # NoneSlot) =>
            LET final == results[i].spec_pred_fixed
                item == results[i].item_extracted
            IN /\ final = <<>> => item \in {None, NaN}
               /\ final # <<>> => item = extract_item(final)
               /\ item \notin {None, NaN} =>
                    /\ strip(item) # <<"-">>
                    /\ \E j \in 1..Len(parse_spec(final)) :
                         parse_spec(final)[j] = <<<<"i", "t", "e", "m">>, item>>

\* the final spec kept the row's item key with the placeholder the answer
\* gave it, and no item was extracted
C26_Witness ==
    \E i \in Workers :
        /\ Returned(i)
        /\ results[i] # NoneSlot
        /\ records[i].spec_pred = SpecItem
        /\ results[i].spec_pred_fixed
             = <<"i", "t", "e", "m", " ", "-", "|", "a", " ", "-">>
        /\ results[i].item_extracted = NaN

\* C27: parse_spec gives the empty map for None, NaN, a blank text and the
\* literal "nan"; otherwise the text is split on "|", each segment that,
\* trimmed, is not empty and holds a space gives the pair (text before its
\* first space, text after it), the other segments are dropped, and the map
\* has each key once, in the order of the keys' first segments.
AbsentText(o) ==
    \/ o \in {None, NaN}
    \/ strip(o) = <<>>
    \/ lower(strip(o)) = <<"n", "a", "n">>

\* the trimmed segments of o that hold a space
KeptSegments(o) ==
    LET segs == split(strip(o), "|")
        trimmed == [j \in 1..Len(segs) |-> strip(segs[j])]
    IN SelectSeq(trimmed, LAMBDA p : \E k \in 1..Len(p) : p[k] = " ")

FirstSpace(p) == CHOOSE k \in 1..Len(p) :
                    p[k] = " " /\ \A l \in 1..(k - 1) : p[l] # " "

KeyOf(p) == SubSeq(p, 1, FirstSpace(p) - 1)
ValueOf(p) == SubSeq(p, FirstSpace(p) + 1, Len(p))

FirstSegmentOf(kept, key) ==
    CHOOSE j \in 1..Len(kept) :
        KeyOf(kept[j]) = key /\ \A l \in 1..(j - 1) : KeyOf(kept[l]) # key

C27_ParseSpec ==
    codec.op = "parse_spec" =>
        IF AbsentText(codec.original) THEN codec.out = <<>>
        ELSE LET kept == KeptSegments(codec.original)
                 out == codec.out
             IN /\ \A j, k \in 1..Len(out) : j # k => out[j][1] # out[k][1]
                /\ {out[j][1] : j \in 1..Len(out)}
                     = {KeyOf(kept[j]) : j \in 1..Len(kept)}
                /\ \A j \in 1..Len(out) :
                     \E k \in 1..Len(kept) :
                        out[j] = <<KeyOf(kept[k]), ValueOf(kept[k])>>
                /\ \A j, k \in 1..Len(out) :
                     j < k => FirstSegmentOf(kept, out[j][1])
                                < FirstSegmentOf(kept, out[k][1])

\* a text whose two segments carry the same key gave a map of one entry
C27_Witness ==
    /\ codec.op = "parse_spec"
    /\ codec.original = SegItemX \o <<"|">> \o SegItemNone
    /\ codec.out = <<<<ItemKey, <<"-">>>>>>

\* C28: when every gateway call ends, every row is eventually admitted and
\* finishes, and the batch eventually returns with a result for each of its
\* N rows.
C28_BatchEventuallyReturns ==
    <>(/\ batch = "returned"
       /\ \A i \in Workers : Done(i) /\ results[i] # NoneSlot)

\* what does hold: every row is admitted and finishes, and the scheduler
\* ends with every slot filled, whether or not the output can then be built
SchedulerCompletes ==
    <>(/\ batch \in {"returned", "rejected"}
       /\ \A i \in Workers : Done(i) /\ results[i] # NoneSlot)


\* C29: the admission counter is conserved: whichever way a row leaves
\* fix_row (a result, a result after a stage fell back, the worker's fallback
\* after an exception) its slot is given back, so free slots plus running
\* rows always make the cap, and every slot is free once the batch is over.
C29_SlotsConserved ==
    /\ semaphore + Cardinality(RunningRows) = concurrency
    /\ batch # "running" => semaphore = concurrency

\* a batch is over in which one row raised, one returned after a stage had
\* failed and one returned with every call answered
C29_Witness ==
    /\ batch = "returned"
    /\ semaphore = concurrency
    /\ \E i \in Workers : Raised(i)
    /\ \E i \in Workers : Returned(i) /\ \E stage \in Stages : Failed(i, stage)
    /\ \E i \in Workers :
         /\ Returned(i)
         /\ gwlog[i] # <<>>
         /\ \A k \in 1..Len(gwlog[i]) : gwlog[i][k].out = "ok"


\* C30: when the calls of stages 4, 5 and 6 (fix_spec, remove_multi_items,
\* validate_spec) of a row all timed out or raised, the row's spec_pred_fixed
\* is its original spec text, character for character, and spec_changed is
\* false.
C30_AllSpecStagesFailed ==
    \A i \in Workers :
        (/\ Done(i)
         /\ results[i] # NoneSlot
         /\ \A stage \in {"fix_spec", "remove_multi_items", "validate_spec"} :
              Failed(i, stage))
        => /\ ~IsBlank(original_spec_pred(records[i]))
           /\ results[i].spec_pred_fixed = records[i].spec_pred
           /\ results[i].spec_changed = FALSE

\* the three calls failed for a row whose spec text is not in the formatted
\* shape (it starts with a space): the text comes back as it was
C30_Witness ==
    \E i \in Workers :
        /\ Returned(i)
        /\ results[i] # NoneSlot
        /\ \A stage \in {"fix_spec", "remove_multi_items", "validate_spec"} :
             Failed(i, stage)
        /\ records[i].spec_pred # fix_spec_format(records[i].spec_pred)
        /\ results[i].spec_pred_fixed = records[i].spec_pred
        /\ ~results[i].spec_changed


\* no two segments of a spec text have the same key
UniqueKeys(text) ==
    LET kept == KeptSegments(text) IN
    \A j, k \in 1..Len(kept) : j # k => KeyOf(kept[j]) # KeyOf(kept[k])

\* C31: every non-empty spec_pred_fixed that fix_row returns holds each key
\* at most once, whatever the gateways answer and whichever of fix_spec,
\* remove_multi_items and validate_spec fail.
C31_KeysAtMostOnce ==
    \A i \in Workers :
        (/\ Returned(i)
         /\ results[i] # NoneSlot
         /\ results[i].spec_pred_fixed # <<>>)
        => UniqueKeys(results[i].spec_pred_fixed)

\* what does hold: the keys are unique whenever validate_spec answered (or was
\* answered without a request), since the text then comes from align_spec_keys
KeysUniqueAfterValidation ==
    \A i \in Workers :
        (/\ Returned(i)
         /\ results[i] # NoneSlot
         /\ WellFormed(records[i])
         /\ ~Failed(i, "validate_spec"))
        => UniqueKeys(results[i].spec_pred_fixed)


\* the keys of a map, each with the placeholder, as a spec text
AllPlaceholders(keys) ==
    join("|", [j \in 1..Len(keys) |-> keys[j] \o <<" ">> \o Placeholder])

\* validate_spec ended well with the empty text for row i: the gateway
\* answered "", or it was not asked because fix_spec or remove_multi_items
\* had given a blank text
Stage6EmptySuccess(i) ==
    IF Called(i, "validate_spec")
    THEN /\ CallOf(i, "validate_spec").out = "ok"
         /\ CallOf(i, "validate_spec").reply = <<>>
    ELSE \/ /\ Called(i, "remove_multi_items")
            /\ CallOf(i, "remove_multi_items").out = "ok"
            /\ IsBlank(CallOf(i, "remove_multi_items").reply)
         \/ /\ ~Called(i, "remove_multi_items")
            /\ Called(i, "fix_spec")
            /\ CallOf(i, "fix_spec").out = "ok"
            /\ IsBlank(CallOf(i, "fix_spec").reply)

\* C32: when the original spec parses to a non-empty map and validate_spec
\* ended well with the empty text, spec_pred_fixed is the original's keys in
\* their order, each with the value "-", and item_extracted is absent.
C32_EmptyOutputGivesPlaceholders ==
    \A i \in Workers :
        (/\ Returned(i)
         /\ results[i] # NoneSlot
         /\ parse_spec(original_spec_pred(records[i])) # <<>>
         /\ Stage6EmptySuccess(i))
        => /\ results[i].spec_pred_fixed
                = AllPlaceholders(Keys(parse_spec(original_spec_pred(records[i]))))
           /\ results[i].item_extracted \in {None, NaN}

\* fix_spec answered "" for a row with the keys item and a, the two later
\* stages were not asked, and the row came back as "item -|a -"
C32_Witness ==
    \E i \in Workers :
        /\ Returned(i)
        /\ results[i] # NoneSlot
        /\ records[i].spec_pred = SpecItem
        /\ Called(i, "fix_spec")
        /\ CallOf(i, "fix_spec").reply = <<>>
        /\ CallOf(i, "fix_spec").out = "ok"
        /\ ~Called(i, "remove_multi_items")
        /\ ~Called(i, "validate_spec")
        /\ results[i].spec_pred_fixed
             = ItemKey \o <<" ", "-", "|", "a", " ", "-">>


\* both runs of the same rows are over
BothOver == earlier # NoRun /\ batch # "running"

\* C33: for the same rows in the same order, the same cap and the same
\* outcome of every gateway call of every row, process_dataframe and
\* fix_batch both return, and they return the same results, fallback results
\* of rows whose fix_row raised included.
C33_SchedulersEquivalent ==
    BothOver =>
        /\ results = earlier.results
        /\ batch = "returned"
        /\ earlier.batch = "returned"
        /\ response.post_process = earlier.response.post_process =>
             response.rows = earlier.response.rows

\* what does hold: when the workers of the second run are all done, its
\* rows have made the same gateway calls as in the first run and its result
\* slots hold what the first run's slots held
ResultSlotsAgree ==
    (/\ earlier # NoRun
     /\ \A i \in Workers : Done(i)
     /\ completed = <<>>)
    => /\ gwlog = earlier.gwlog
       /\ results = earlier.results

\* and both runs return the same rows whenever both return
ReturnedRowsAgree ==
    (/\ BothOver
     /\ batch = "returned"
     /\ earlier.batch = "returned"
     /\ response.post_process = earlier.response.post_process)
    => response.rows = earlier.response.rows


\* C34: aligning the original with the result of an alignment gives that
\* result again, for every original and candidate, and the original aligned
\* with itself parses to the map the original parses to.
C34_AlignIdempotent ==
    /\ codec.op = "align_spec_keys_again" => codec.again = codec.out
    /\ codec.op = "align_spec_keys_self" =>
         parse_spec(codec.out) = parse_spec(codec.original)

\* an original of two keys, one with a value that starts with a space, was
\* aligned with a candidate that lacks one of its keys, and aligned again
C34_Witness ==
    /\ codec.op = "align_spec_keys_again"
    /\ Len(parse_spec(codec.original)) = 2
    /\ \E j \in 1..2 : Head(parse_spec(codec.original)[j][2]) = " "
    /\ \E j \in 1..2 :
         ~HasKey(parse_spec(codec.fixed), parse_spec(codec.original)[j][1])
    /\ codec.out # codec.fixed
    /\ codec.again = codec.out

\* an original with a padded pair was aligned with itself: the text changed,
\* the map did not
AlignedWithItself ==
    /\ codec.op = "align_spec_keys_self"
    /\ codec.out # codec.original
    /\ parse_spec(codec.out) # <<>>
    /\ parse_spec(codec.out) = parse_spec(codec.original)

====
